---- MODULE Spec2Model ----
(***************************************************************************)
(* merge_media.py: matching of video files to audio / subtitle assets by   *)
(* file name, assembly of the ffmpeg command line, and the run of main()   *)
(* over a thread pool.                                                     *)
(*                                                                         *)
(* File names are sequences of one-character strings, paths are sequences  *)
(* of path components (os.path.join appends, os.path.basename is the last  *)
(* component).  Byte strings are sequences of integers 0..255.             *)
(***************************************************************************)
EXTENDS Integers, Sequences, FiniteSets, TLC

(***************************************************************************)
(* Bounds of the model.                                                    *)
(***************************************************************************)
MaxDirEntries == 2      \* entries listed in the source directory
MaxFiles == 2           \* audio and subtitle files of the source tree
MaxThreads == 2         \* largest value of --threads
MaxStreams == 2         \* audio streams held by one media file
MaxDigits == 3          \* digits of the first digit run of a file name

(***************************************************************************)
(* File names of the model's directory trees.                              *)
(***************************************************************************)
Show1 == <<"S", "h", "o", "w", " ", "-", " ", "1">>
Show10 == <<"S", "h", "o", "w", " ", "-", " ", "1", "0">>
ExtMkv == <<".", "m", "k", "v">>
ExtMka == <<".", "m", "k", "a">>
ExtAss == <<".", "a", "s", "s">>
NotesTxt == <<"n", "o", "t", "e", "s", ".", "t", "x", "t">>

SourceNames == {Show1 \o ExtMkv, Show10 \o ExtMkv, NotesTxt}
AudioNames == {Show1 \o ExtMka, Show10 \o ExtMka}
SubtitleNames == {Show1 \o ExtAss, Show10 \o ExtAss}
GroupNames == {"TeamX", "TeamY"}

NoDir == "NoDir"        \* os.path.isdir is false
None == <<>>            \* argparse default of --audio-groups / --subtitle-groups

\* Sequences without repetition of at most n elements of S.
RECURSIVE Listings(_, _)
Listings(S, n) ==
    IF n = 0 THEN {<<>>}
    ELSE LET shorter == Listings(S, n - 1)
             longer == {p \in shorter \X S :
                          /\ Len(p[1]) = n - 1
                          /\ \A i \in 1..Len(p[1]) : p[1][i] # p[2]}
         IN shorter \cup {Append(p[1], p[2]) : p \in longer}

(***************************************************************************)
(* String helpers.                                                         *)
(***************************************************************************)
endswith(s, suffix) ==
    /\ Len(s) >= Len(suffix)
    /\ SubSeq(s, Len(s) - Len(suffix) + 1, Len(s)) = suffix

startswith(s, prefix) ==
    /\ Len(s) >= Len(prefix)
    /\ SubSeq(s, 1, Len(prefix)) = prefix

\* str.rfind('.') + 1, 0 when there is no dot
rfind_dot(s) ==
    LET dots == {i \in 1..Len(s) : s[i] = "."}
    IN IF dots = {} THEN 0 ELSE CHOOSE i \in dots : \A j \in dots : j <= i

\* os.path.splitext on a bare file name: split at the last dot unless only
\* dots precede it.
splitext(s) ==
    LET d == rfind_dot(s)
    IN IF d > 0 /\ \E j \in 1..(d - 1) : s[j] # "."
       THEN <<SubSeq(s, 1, d - 1), SubSeq(s, d, Len(s))>>
       ELSE <<s, <<>>>>

basename(path) == path[Len(path)]
join(path, name) == Append(path, name)

\* re.match(f"^{re.escape(base_name)}.*\\.ext$", filename): the escaped base
\* name is matched literally, '.' matches any character but a newline, and
\* '$' matches at the end or before a final newline.
re_match(base_name, ext, filename) ==
    \E end \in {Len(filename)} \cup
               {n \in {Len(filename) - 1} : n >= 0 /\ filename[n + 1] = "\n"} :
        LET core == SubSeq(filename, 1, end)
        IN /\ startswith(core, base_name)
           /\ Len(core) >= Len(base_name) + Len(ext)
           /\ endswith(core, ext)
           /\ \A i \in (Len(base_name) + 1)..(Len(core) - Len(ext)) : core[i] # "\n"

(***************************************************************************)
(* Directory trees.  A class root ("RUS Sound", "RUS Subs") maps each      *)
(* group name to [isdir, files]: whether the group directory exists and    *)
(* the files it holds.  os.listdir returns them in an order the file       *)
(* system chooses; a listed tree holds sequences in place of the sets.     *)
(***************************************************************************)
source_dir == <<"src">>
dest_dir == <<"src_converted">>
SoundRoot == "RUS Sound"
SubsRoot == "RUS Subs"

\* a group directory is there when it holds a file
GroupDirs(names) == {[isdir |-> f # {}, files |-> f] : f \in SUBSET names}

RECURSIVE FileCount(_, _)
FileCount(tree, groups) ==
    IF groups = {} THEN 0
    ELSE LET g == CHOOSE x \in groups : TRUE
         IN Cardinality(tree[g].files) + FileCount(tree, groups \ {g})

Orders(S) == {l \in Listings(S, Cardinality(S)) : Len(l) = Cardinality(S)}

\* os.listdir of every group directory of a class root
listdir(tree) ==
    {[g \in DOMAIN tree |-> [isdir |-> tree[g].isdir, files |-> order[g]]] :
        order \in {o \in [DOMAIN tree -> UNION {Orders(tree[g].files) : g \in DOMAIN tree}] :
                      \A g \in DOMAIN tree : o[g] \in Orders(tree[g].files)}}

isdir(tree, group) == group \in DOMAIN tree /\ tree[group].isdir

\* lines 42-49 / 68-75: the named groups that exist, in the order given
named_group_dirs(tree, groups) == SelectSeq(groups, LAMBDA g : isdir(tree, g))

\* lines 52-53 / 78-79: glob of the class root returns the existing group
\* directories in an order the file system chooses
glob_group_dirs(tree) ==
    LET existing == {g \in DOMAIN tree : tree[g].isdir}
    IN Orders(existing)

\* lines 42-53 / 68-79: the possible group lists of one class
group_dirs(tree, groups) ==
    IF groups # None THEN {named_group_dirs(tree, groups)} ELSE glob_group_dirs(tree)

\* lines 58-61 / 84-87: the files of one group directory that match, in
\* listing order, each joined to its group directory
RECURSIVE group_files(_, _, _, _, _, _)
group_files(tree, root, group, base_name, ext, k) ==
    IF k > Len(tree[group].files) THEN <<>>
    ELSE LET filename == tree[group].files[k]
             rest == group_files(tree, root, group, base_name, ext, k + 1)
         IN IF re_match(base_name, ext, filename)
            THEN <<join(<<source_dir[1], root, group>>, filename)>> \o rest
            ELSE rest

\* lines 55-64 / 81-90: (file, group) pairs over the groups in order
RECURSIVE find_assets(_, _, _, _, _, _)
find_assets(tree, root, dirs, base_name, ext, g) ==
    IF g > Len(dirs) THEN <<>>
    ELSE LET found == group_files(tree, root, dirs[g], base_name, ext, 1)
         IN [i \in 1..Len(found) |-> <<found[i], dirs[g]>>]
            \o find_assets(tree, root, dirs, base_name, ext, g + 1)

\* lines 27-28
base_name_of(video_path) == splitext(basename(video_path))[1]

(***************************************************************************)
(* Command assembly, lines 106-141.                                        *)
(* "-map k:a" is <<k, "a">>, "-metadata:s:a:i" is <<"-metadata:s", "a", i>>*)
(* and "key=value" is <<key, value>>.                                      *)
(***************************************************************************)
\* lines 118, 130: len(inputs)//2 - 1 after the asset was appended
InputIndex_off(inputs) == Len(inputs) \div 2
InputIndex(inputs) == Len(inputs) \div 2 - 1

\* line 113
AudioStartIndex == 1
\* line 127
SubtitleStartIndex == 0
\* lines 124, 136
next_index_stuck(i) == i
next_index(i) == i + 1

\* lines 116-124 and 128-136: one loop over the assets of a class
RECURSIVE add_assets(_, _, _, _)
add_assets(acc, assets, class, k) ==
    IF k > Len(assets) THEN acc
    ELSE LET inputs == acc.inputs \o <<"-i", assets[k][1]>>
             maps == acc.maps \o <<"-map", <<InputIndex(inputs), class>>>>
             tag == <<"-metadata:s", class, acc.stream_index>>
             metadata_options ==
                 acc.metadata_options \o
                 <<tag, <<"language", "rus">>, tag, <<"title", assets[k][2]>>>>
         IN add_assets([inputs |-> inputs, maps |-> maps,
                        metadata_options |-> metadata_options,
                        stream_index |-> next_index(acc.stream_index)],
                       assets, class, k + 1)

codecs == <<"-c:v", "copy", "-c:a", "copy", "-c:s", "copy">>

\* lines 107-136 and 141: the parts of ffmpeg_command
build_command(video_path, audio_files, subtitle_files) ==
    LET start == [inputs |-> <<"-i", video_path>>,
                  maps |-> <<"-map", <<0, "v">>, "-map", <<0, "a">>>>,
                  metadata_options |->
                      <<<<"-metadata:s", "v", 0>>, <<"language", "jpn">>,
                        <<"-metadata:s", "a", 0>>, <<"language", "jpn">>>>,
                  stream_index |-> AudioStartIndex]
        audio == add_assets(start, audio_files, "a", 1)
        subs == add_assets([audio EXCEPT !.stream_index = SubtitleStartIndex],
                           subtitle_files, "s", 1)
    IN [inputs |-> subs.inputs, maps |-> subs.maps, codecs |-> codecs,
        metadata_options |-> subs.metadata_options,
        output_path |-> join(dest_dir, basename(video_path))]

NoCommand == [inputs |-> <<>>, maps |-> <<>>, codecs |-> <<>>,
              metadata_options |-> <<>>, output_path |-> <<>>]

\* line 102
no_assets_lost_not(a, s) == a = <<>> /\ s # <<>>
no_assets(a, s) == a = <<>> /\ s = <<>>

\* lines 92-104: what process_video does once the assets are known
disposition(check_only, a, s) ==
    IF check_only THEN "report"
    ELSE IF no_assets(a, s) THEN "skip"
    ELSE "mux"

(***************************************************************************)
(* bytes.decode('utf-8') of the captured stderr, line 150, for byte        *)
(* strings of one- and two-byte sequences (every byte below 0xE0).         *)
(***************************************************************************)
RECURSIVE utf8_valid(_)
utf8_valid(b) ==
    IF b = <<>> THEN TRUE
    ELSE IF b[1] < 128 THEN utf8_valid(Tail(b))
    ELSE IF b[1] \in 194..223 /\ Len(b) >= 2 /\ b[2] \in 128..191
         THEN utf8_valid(Tail(Tail(b)))
    ELSE FALSE

RECURSIVE utf8_decode(_)
utf8_decode(b) ==
    IF b = <<>> THEN <<>>
    ELSE IF b[1] < 128 THEN <<b[1]>> \o utf8_decode(Tail(b))
    ELSE <<(b[1] - 192) * 64 + (b[2] - 128)>> \o utf8_decode(Tail(Tail(b)))

\* stderr of a failed ffmpeg: "E" and a Cyrillic letter in UTF-8, or the
\* same letter in a one-byte code page
StderrSamples == {<<69, 208, 158>>, <<69, 206>>}

(***************************************************************************)
(* The numeric-key strategy of the Matcher.  merge_media.py implements the *)
(* prefix strategy only; these definitions follow the description of the   *)
(* numeric strategy: the first maximal run of decimal digits of a file     *)
(* name, leading zeros stripped; no key when the name holds no digit.      *)
(***************************************************************************)
Digits == {"0", "1", "2", "3", "4", "5", "6", "7", "8", "9"}

first_digit_run(name) ==
    LET at == {i \in 1..Len(name) : name[i] \in Digits}
    IN IF at = {} THEN <<>>
       ELSE LET from == CHOOSE i \in at : \A j \in at : i <= j
                to == CHOOSE i \in from..Len(name) :
                          /\ \A j \in from..i : name[j] \in Digits
                          /\ i = Len(name) \/ name[i + 1] \notin Digits
            IN SubSeq(name, from, to)

RECURSIVE strip_zeros(_)
strip_zeros_kept(run) == run
strip_zeros(run) ==
    IF run # <<>> /\ run[1] = "0" THEN strip_zeros(Tail(run)) ELSE run

has_key(name) == \E i \in 1..Len(name) : name[i] \in Digits
episode_key(name) == strip_zeros(first_digit_run(name))

numeric_match(video, file) ==
    /\ has_key(video)
    /\ has_key(file)
    /\ episode_key(video) = episode_key(file)

\* file names: an optional prefix, a digit run, a suffix that may hold a
\* second digit run
RECURSIVE DigitRuns(_)
DigitRuns(n) ==
    IF n = 0 THEN {<<>>}
    ELSE DigitRuns(n - 1) \cup
         {Append(r, d) : r \in {x \in DigitRuns(n - 1) : Len(x) = n - 1}, d \in {"0", "5", "7"}}

ShowPrefix == <<"S", "h", "o", "w", " ", "-", " ">>
KeyVideoNames ==
    {p \o r \o ExtMkv : p \in {<<>>, ShowPrefix}, r \in DigitRuns(MaxDigits)}
KeyFileNames ==
    {r \o x \o ExtMka : r \in DigitRuns(MaxDigits),
                         x \in {<<>>, <<"_", "T", "e", "a", "m", "X">>, <<"_", "7">>}}

(***************************************************************************)
(* State.                                                                  *)
(***************************************************************************)
VARIABLES
    check,              \* args.check
    threads,            \* args.threads
    audio_groups,       \* args.audio_groups
    subtitle_groups,    \* args.subtitle_groups
    source_exists,      \* os.path.isdir(source_dir)
    listing,            \* os.listdir(source_dir)
    sound,              \* the "RUS Sound" tree
    subs,               \* the "RUS Subs" tree
    pc,                 \* position of main()
    video_files,        \* main's list of video paths
    next,               \* index of the video main handles or waits for
    exit_code,          \* exit status of the process, NoExit while it runs
    completed,          \* line 191 was printed
    task,               \* per video: state of its process_video call
    started,            \* per video: calls of process_video
    audio_files,        \* per video: process_video's audio_files
    subtitle_files,     \* per video: process_video's subtitle_files
    report,             \* per video: the lists printed in check mode
    command,            \* per video: the parts of ffmpeg_command
    invoked,            \* per video: calls of subprocess.run
    returncode,         \* per video: exit status of ffmpeg
    stderr,             \* per video: captured stderr of a failed ffmpeg
    log,                \* per video: records written to merge_media.log
    warned,             \* videos for which line 103 was printed
    dest_exists,        \* dest_dir was created
    outputs,            \* files ffmpeg wrote
    key_video,          \* numeric strategy: the video file name
    key_file,           \* numeric strategy: the candidate file name
    key_result          \* numeric strategy: "none", "skipped", "match", "nomatch"

argVars == <<check, threads, audio_groups, subtitle_groups>>
fsVars == <<source_exists, listing, sound, subs>>
mainVars == <<pc, video_files, next, exit_code, completed>>
callVars == <<task, started, audio_files, subtitle_files, report, command, invoked, log,
              warned, dest_exists>>
muxVars == <<returncode, stderr, outputs>>
keyVars == <<key_video, key_file, key_result>>
runVars == <<argVars, fsVars, mainVars, callVars, muxVars>>
vars == <<runVars, keyVars>>

NoExit == -1
NoReturn == -1

AudioGroupArgs == {None, <<"TeamY", "TeamX">>}
SubtitleGroupArgs == {None, <<"TeamX">>}
SubtitleGroupNames == {"TeamX"}

Videos == 1..Len(video_files)
Running == {i \in Videos : task[i] = "running"}

\* lines 172-175
RECURSIVE scan(_, _)
scan(names, k) ==
    IF k > Len(names) THEN <<>>
    ELSE IF endswith(names[k], ExtMkv)
         THEN <<join(source_dir, names[k])>> \o scan(names, k + 1)
    ELSE scan(names, k + 1)

\* line 181
mode_ignores_check(c) == "pool"
mode(c) == IF c THEN "check" ELSE "pool"

Init ==
    /\ check \in BOOLEAN
    /\ threads \in 0..MaxThreads
    /\ audio_groups \in AudioGroupArgs
    /\ subtitle_groups \in SubtitleGroupArgs
    /\ source_exists \in BOOLEAN
    /\ listing \in IF source_exists THEN Listings(SourceNames, MaxDirEntries) ELSE {<<>>}
    /\ sound \in IF source_exists THEN [GroupNames -> GroupDirs(AudioNames)]
                 ELSE {[g \in GroupNames |-> [isdir |-> FALSE, files |-> {}]]}
    /\ subs \in IF source_exists THEN [SubtitleGroupNames -> GroupDirs(SubtitleNames)]
                ELSE {[g \in SubtitleGroupNames |-> [isdir |-> FALSE, files |-> {}]]}
    /\ FileCount(sound, GroupNames) + FileCount(subs, SubtitleGroupNames) <= MaxFiles
    /\ pc = "start"
    /\ video_files = <<>>
    /\ next = 1
    /\ exit_code = NoExit
    /\ completed = FALSE
    /\ task = <<>>
    /\ started = <<>>
    /\ audio_files = <<>>
    /\ subtitle_files = <<>>
    /\ report = <<>>
    /\ command = <<>>
    /\ invoked = <<>>
    /\ returncode = <<>>
    /\ stderr = <<>>
    /\ log = <<>>
    /\ warned = {}
    /\ dest_exists = FALSE
    /\ outputs = {}
    /\ key_video = <<>>
    /\ key_file = <<>>
    /\ key_result = "none"

\* the per-video records of a run over the scanned videos
Discover(videos, first) ==
    /\ video_files' = videos
    /\ task' = [i \in 1..Len(videos) |-> first]
    /\ started' = [i \in 1..Len(videos) |-> 0]
    /\ audio_files' = [i \in 1..Len(videos) |-> <<>>]
    /\ subtitle_files' = [i \in 1..Len(videos) |-> <<>>]
    /\ report' = [i \in 1..Len(videos) |-> <<>>]
    /\ command' = [i \in 1..Len(videos) |-> NoCommand]
    /\ invoked' = [i \in 1..Len(videos) |-> 0]
    /\ returncode' = [i \in 1..Len(videos) |-> NoReturn]
    /\ stderr' = [i \in 1..Len(videos) |-> <<>>]
    /\ log' = [i \in 1..Len(videos) |-> <<>>]

Exit(code) ==
    /\ pc' = "exited"
    /\ exit_code' = code

(***************************************************************************)
(* main(), lines 163-191.                                                  *)
(***************************************************************************)
\* lines 167-169
MainNoSource ==
    /\ pc = "start"
    /\ ~source_exists
    /\ Exit(1)
    /\ UNCHANGED <<keyVars, argVars, fsVars, video_files, next, completed, callVars, muxVars>>

\* lines 172-179
MainNoVideos ==
    /\ pc = "start"
    /\ source_exists
    /\ scan(listing, 1) = <<>>
    /\ Exit(1)
    /\ UNCHANGED <<keyVars, argVars, fsVars, video_files, next, completed, callVars, muxVars>>

\* lines 181-183: the check loop is entered
MainCheck ==
    /\ pc = "start"
    /\ source_exists
    /\ scan(listing, 1) # <<>>
    /\ mode(check) = "check"
    /\ Discover(scan(listing, 1), "waiting")
    /\ pc' = "check"
    /\ UNCHANGED <<keyVars, argVars, fsVars, next, exit_code, completed, warned, dest_exists, outputs>>

\* line 188 with threads < 1: ThreadPoolExecutor raises ValueError, main
\* ends with a traceback
MainPoolRejected ==
    /\ pc = "start"
    /\ source_exists
    /\ scan(listing, 1) # <<>>
    /\ mode(check) = "pool"
    /\ threads < 1
    /\ Exit(1)
    /\ UNCHANGED <<keyVars, argVars, fsVars, video_files, next, completed, callVars, muxVars>>

\* lines 188-189: executor.map submits one call per video, in order
MainSubmit ==
    /\ pc = "start"
    /\ source_exists
    /\ scan(listing, 1) # <<>>
    /\ mode(check) = "pool"
    /\ threads >= 1
    /\ Discover(scan(listing, 1), "pending")
    /\ pc' = "collect"
    /\ UNCHANGED <<keyVars, argVars, fsVars, next, exit_code, completed, warned, dest_exists, outputs>>

(***************************************************************************)
(* process_video, lines 26-147: everything up to the start of ffmpeg.      *)
(***************************************************************************)
\* lines 94-98: the printed (file name, group) pairs
printed(assets) == [k \in 1..Len(assets) |-> <<basename(assets[k][1]), assets[k][2]>>]

process_video(i, check_only) ==
    \E adirs \in group_dirs(sound, audio_groups),
       sdirs \in group_dirs(subs, subtitle_groups),
       alist \in listdir(sound), slist \in listdir(subs) :
        LET video_path == video_files[i]
            base_name == base_name_of(video_path)
            a == find_assets(alist, SoundRoot, adirs, base_name, ExtMka, 1)
            s == find_assets(slist, SubsRoot, sdirs, base_name, ExtAss, 1)
            what == disposition(check_only, a, s)
        IN /\ started' = [started EXCEPT ![i] = @ + 1]
           /\ audio_files' = [audio_files EXCEPT ![i] = a]
           /\ subtitle_files' = [subtitle_files EXCEPT ![i] = s]
           /\ log' = [log EXCEPT ![i] = Append(@, <<"INFO", "processing", <<>>>>)]
           /\ report' = [report EXCEPT
                           ![i] = IF what = "report" THEN <<printed(a), printed(s)>> ELSE @]
           /\ warned' = IF what = "skip" THEN warned \cup {basename(video_path)} ELSE warned
           /\ command' = [command EXCEPT
                            ![i] = IF what = "mux" THEN build_command(video_path, a, s) ELSE @]
           /\ dest_exists' = (dest_exists \/ what = "mux")
           /\ invoked' = [invoked EXCEPT ![i] = IF what = "mux" THEN @ + 1 ELSE @]
           /\ task' = [task EXCEPT
                         ![i] = CASE what = "report" -> "reported"
                                  [] what = "skip" -> "skipped"
                                  [] what = "mux" -> "running"]

\* lines 183-184: main calls process_video for the next video itself
CheckVideo ==
    /\ pc = "check"
    /\ next \in Videos
    /\ Running = {}
    /\ process_video(next, TRUE)
    /\ next' = next + 1
    /\ UNCHANGED <<keyVars, argVars, fsVars, pc, video_files, exit_code, completed, muxVars>>

\* line 185
CheckExit ==
    /\ pc = "check"
    /\ next > Len(video_files)
    /\ Running = {}
    /\ Exit(0)
    /\ UNCHANGED <<keyVars, argVars, fsVars, video_files, next, completed, callVars, muxVars>>

\* line 189: a free worker of the pool takes the oldest queued call
WorkerStart ==
    /\ Cardinality(Running) < threads
    /\ \E i \in Videos :
        /\ task[i] = "pending"
        /\ \A j \in 1..(i - 1) : task[j] # "pending"
        /\ process_video(i, FALSE)
    /\ UNCHANGED <<keyVars, argVars, fsVars, mainVars, muxVars>>

(***************************************************************************)
(* process_video, lines 146-151: ffmpeg exits.                             *)
(***************************************************************************)
\* lines 147-148
MuxExitOk ==
    /\ \E i \in Running :
        /\ returncode' = [returncode EXCEPT ![i] = 0]
        /\ outputs' = outputs \cup {command[i].output_path}
        /\ log' = [log EXCEPT ![i] = Append(@, <<"INFO", "saved", <<>>>>)]
        /\ task' = [task EXCEPT ![i] = "done"]
    /\ UNCHANGED <<keyVars, argVars, fsVars, mainVars, stderr, started, audio_files, subtitle_files,
                   report, command, invoked, warned, dest_exists>>

\* lines 149-151: CalledProcessError; the handler decodes e.stderr, and a
\* UnicodeDecodeError raised there leaves process_video
MuxExitError ==
    /\ \E i \in Running, err \in StderrSamples :
        /\ returncode' = [returncode EXCEPT ![i] = 1]
        /\ stderr' = [stderr EXCEPT ![i] = err]
        /\ IF utf8_valid(err)
           THEN /\ log' = [log EXCEPT ![i] = Append(@, <<"ERROR", "failed", utf8_decode(err)>>)]
                /\ task' = [task EXCEPT ![i] = "failed"]
                /\ UNCHANGED <<pc, exit_code>>
           ELSE /\ log' = log
                /\ task' = [task EXCEPT ![i] = "raised"]
                /\ IF pc = "check" THEN Exit(1) ELSE UNCHANGED <<pc, exit_code>>
    /\ UNCHANGED <<keyVars, argVars, fsVars, video_files, next, completed, outputs, started,
                   audio_files, subtitle_files, report, command, invoked, warned, dest_exists>>

(***************************************************************************)
(* main(), lines 188-191: list(...) takes the results in submission order. *)
(***************************************************************************)
Returned == {"done", "skipped", "failed"}

\* the next result is there
MainCollect ==
    /\ pc = "collect"
    /\ next \in Videos
    /\ task[next] \in Returned
    /\ next' = next + 1
    /\ UNCHANGED <<keyVars, argVars, fsVars, pc, video_files, exit_code, completed, callVars, muxVars>>

\* the next result is an exception: the result iterator cancels the calls
\* that are still queued and the exception leaves the with block
MainRaise ==
    /\ pc = "collect"
    /\ next \in Videos
    /\ task[next] = "raised"
    /\ task' = [i \in Videos |-> IF task[i] = "pending" THEN "cancelled" ELSE task[i]]
    /\ pc' = "shutdown"
    /\ UNCHANGED <<keyVars, argVars, fsVars, video_files, next, exit_code, completed, started,
                   audio_files, subtitle_files, report, command, invoked, log, warned,
                   dest_exists, muxVars>>

\* executor.shutdown(wait=True) returns, the traceback ends the process
MainShutdown ==
    /\ pc = "shutdown"
    /\ Running = {}
    /\ Exit(1)
    /\ UNCHANGED <<keyVars, argVars, fsVars, video_files, next, completed, callVars, muxVars>>

\* line 191 and the return of main
MainDone ==
    /\ pc = "collect"
    /\ next > Len(video_files)
    /\ completed' = TRUE
    /\ Exit(0)
    /\ UNCHANGED <<keyVars, argVars, fsVars, video_files, next, callVars, muxVars>>

Next ==
    \/ MainNoSource
    \/ MainNoVideos
    \/ MainCheck
    \/ MainPoolRejected
    \/ MainSubmit
    \/ CheckVideo
    \/ CheckExit
    \/ WorkerStart
    \/ MuxExitOk
    \/ MuxExitError
    \/ MainCollect
    \/ MainRaise
    \/ MainShutdown
    \/ MainDone

Spec == Init /\ [][Next]_vars

(***************************************************************************)
(* The numeric-key strategy applied to one video and one candidate file.   *)
(***************************************************************************)
InitKey ==
    /\ check = FALSE
    /\ threads = 1
    /\ audio_groups = None
    /\ subtitle_groups = None
    /\ source_exists = FALSE
    /\ listing = <<>>
    /\ sound = [g \in GroupNames |-> [isdir |-> FALSE, files |-> {}]]
    /\ subs = [g \in SubtitleGroupNames |-> [isdir |-> FALSE, files |-> {}]]
    /\ pc = "start"
    /\ video_files = <<>>
    /\ next = 1
    /\ exit_code = NoExit
    /\ completed = FALSE
    /\ task = <<>>
    /\ started = <<>>
    /\ audio_files = <<>>
    /\ subtitle_files = <<>>
    /\ report = <<>>
    /\ command = <<>>
    /\ invoked = <<>>
    /\ returncode = <<>>
    /\ stderr = <<>>
    /\ log = <<>>
    /\ warned = {}
    /\ dest_exists = FALSE
    /\ outputs = {}
    /\ key_video \in KeyVideoNames
    /\ key_file \in KeyFileNames
    /\ key_result = "none"

\* a video without a key is skipped, no file is compared with it
KeySkip ==
    /\ key_result = "none"
    /\ ~has_key(key_video)
    /\ key_result' = "skipped"
    /\ UNCHANGED <<runVars, key_video, key_file>>

KeyMatch ==
    /\ key_result = "none"
    /\ has_key(key_video)
    /\ key_result' = IF numeric_match(key_video, key_file) THEN "match" ELSE "nomatch"
    /\ UNCHANGED <<runVars, key_video, key_file>>

NextKey ==
    \/ KeySkip
    \/ KeyMatch

SpecKey == InitKey /\ [][NextKey]_vars

(***************************************************************************)
(* Properties.                                                             *)
(***************************************************************************)
Built == {i \in Videos : command[i] # NoCommand}
OutputOf(i) == join(dest_dir, basename(video_files[i]))
TagKey(class, index) == <<"-metadata:s", class, index>>

\* C1: in a run without --check, a video whose audio and subtitle lists
\* are both empty after matching is skipped with the warning: no command is
\* built for it, ffmpeg is not started for it and no output file of its name
\* is written.
C1_NoAssetsNoMux ==
    \A i \in Videos :
        (~check /\ started[i] > 0 /\ audio_files[i] = <<>> /\ subtitle_files[i] = <<>>) =>
            /\ task[i] = "skipped"
            /\ basename(video_files[i]) \in warned
            /\ command[i] = NoCommand
            /\ invoked[i] = 0
            /\ returncode[i] = NoReturn
            /\ OutputOf(i) \notin outputs
            /\ \A k \in 1..Len(log[i]) : log[i][k][1] # "ERROR"

\* a finished run that skipped one video and muxed another
C1_Witness ==
    /\ pc = "exited"
    /\ ~check
    /\ \E i, j \in Videos :
        /\ task[i] = "skipped"
        /\ audio_files[i] = <<>>
        /\ subtitle_files[i] = <<>>
        /\ task[j] = "done"

\* C2: in every built command the metadata options are the two jpn tags of
\* v:0 and a:0, then for the k-th audio asset (k = 1..n) language=rus and
\* title=<group> on a:k, then for the j-th subtitle asset (j = 1..m) the same
\* two tags on s:(j-1); so the indices of a class increase by one from base
\* 1 (audio) and 0 (subtitles), none is used for two assets, and a:0 and v:0
\* carry the jpn tags only.
C2_StreamIndices ==
    \A i \in Built :
        LET n == Len(audio_files[i])
            m == Len(subtitle_files[i])
            md == command[i].metadata_options
        IN /\ Len(md) = 4 + 4 * n + 4 * m
           /\ md[1] = TagKey("v", 0) /\ md[2] = <<"language", "jpn">>
           /\ md[3] = TagKey("a", 0) /\ md[4] = <<"language", "jpn">>
           /\ \A k \in 1..n :
                /\ md[4 * k + 1] = TagKey("a", k)
                /\ md[4 * k + 2] = <<"language", "rus">>
                /\ md[4 * k + 3] = TagKey("a", k)
                /\ md[4 * k + 4] = <<"title", audio_files[i][k][2]>>
           /\ \A j \in 1..m :
                /\ md[4 * (n + j) + 1] = TagKey("s", j - 1)
                /\ md[4 * (n + j) + 2] = <<"language", "rus">>
                /\ md[4 * (n + j) + 3] = TagKey("s", j - 1)
                /\ md[4 * (n + j) + 4] = <<"title", subtitle_files[i][j][2]>>
           /\ \A q \in 3..(Len(md) \div 2) :
                md[2 * q - 1] \notin {TagKey("v", 0), TagKey("a", 0)}

\* a command built from two audio assets
C2_Witness ==
    \E i \in Built : Len(audio_files[i]) = 2 /\ task[i] = "done"

\* C3: in every built command the inputs are the video, then the audio
\* assets, then the subtitle assets, in match order; the maps are 0:v, 0:a,
\* k:a for the k-th audio asset and (n+j):s for the j-th subtitle asset; a
\* class without assets has no map and no metadata tag.
C3_InputsAndMaps ==
    \A i \in Built :
        LET n == Len(audio_files[i])
            m == Len(subtitle_files[i])
            c == command[i]
        IN /\ Len(c.inputs) = 2 * (1 + n + m)
           /\ \A q \in 1..(1 + n + m) : c.inputs[2 * q - 1] = "-i"
           /\ c.inputs[2] = video_files[i]
           /\ \A k \in 1..n : c.inputs[2 * (k + 1)] = audio_files[i][k][1]
           /\ \A j \in 1..m : c.inputs[2 * (n + j + 1)] = subtitle_files[i][j][1]
           /\ Len(c.maps) = 2 * (2 + n + m)
           /\ \A q \in 1..(2 + n + m) : c.maps[2 * q - 1] = "-map"
           /\ c.maps[2] = <<0, "v">>
           /\ c.maps[4] = <<0, "a">>
           /\ \A k \in 1..n : c.maps[2 * (k + 2)] = <<k, "a">>
           /\ \A j \in 1..m : c.maps[2 * (n + j + 2)] = <<n + j, "s">>
           /\ m = 0 =>
                /\ \A q \in 1..(Len(c.maps) \div 2) : c.maps[2 * q][2] # "s"
                /\ \A q \in 1..(Len(c.metadata_options) \div 2) :
                       c.metadata_options[2 * q - 1][2] # "s"
           /\ n = 0 =>
                /\ \A q \in 3..(Len(c.maps) \div 2) : c.maps[2 * q][2] # "a"
                /\ \A q \in 3..(Len(c.metadata_options) \div 2) :
                       c.metadata_options[2 * q - 1][2] # "a"
           /\ c.output_path = OutputOf(i)

\* one audio asset of group TeamX and no subtitles: two inputs, the asset
\* mapped as 1:a and titled TeamX on a:1
C3_Witness ==
    \E i \in Built :
        /\ Len(audio_files[i]) = 1
        /\ subtitle_files[i] = <<>>
        /\ audio_files[i][1][2] = "TeamX"
        /\ Len(command[i].inputs) = 4
        /\ command[i].maps[6] = <<1, "a">>
        /\ command[i].metadata_options[8] = <<"title", "TeamX">>

\* C4: when ffmpeg exits non-zero for a video, its failure is in the log
\* as an ERROR record with the decoded diagnostic, ffmpeg was started once
\* for it, and every other video was processed to the end, whatever the
\* position of the video and the number of workers.
C4_MuxFailureIsolated ==
    \A i \in Videos :
        (pc = "exited" /\ returncode[i] = 1) =>
            /\ \E k \in 1..Len(log[i]) :
                   log[i][k][1] = "ERROR" /\ log[i][k][2] = "failed" /\ log[i][k][3] # <<>>
            /\ invoked[i] = 1
            /\ \A j \in Videos \ {i} : started[j] = 1 /\ task[j] \in Returned

\* C5: the exit status is 1 when the source directory is missing or no
\* video was found and 0 in every other run, whatever happened to the
\* single videos.
C5_ExitCode ==
    pc = "exited" =>
        exit_code = IF ~source_exists \/ scan(listing, 1) = <<>> THEN 1 ELSE 0

\* the files of the searched groups of a class that belong to a video by
\* the prefix rule, each with its group
Belonging(tree, groups, i, ext) ==
    LET searched == IF groups = None THEN {g \in DOMAIN tree : tree[g].isdir}
                    ELSE {g \in DOMAIN tree :
                            tree[g].isdir /\ \E k \in 1..Len(groups) : groups[k] = g}
        base_name == base_name_of(video_files[i])
    IN UNION {{<<f, g>> : f \in {x \in tree[g].files :
                                   startswith(x, base_name) /\ endswith(x, ext)}} :
              g \in searched}

\* C7: in a --check run every video found is matched and its assets are
\* printed, ffmpeg is never started, dest_dir is not created, no output is
\* written, and the run exits with status 0.
C7_CheckOnly ==
    check =>
        /\ ~dest_exists
        /\ outputs = {}
        /\ \A i \in Videos : invoked[i] = 0 /\ command[i] = NoCommand /\ started[i] <= 1
        /\ \A i \in Videos :
            started[i] = 1 =>
                /\ task[i] = "reported"
                /\ report[i] = <<printed(audio_files[i]), printed(subtitle_files[i])>>
                /\ {report[i][1][k] : k \in 1..Len(report[i][1])}
                       = Belonging(sound, audio_groups, i, ExtMka)
                /\ {report[i][2][k] : k \in 1..Len(report[i][2])}
                       = Belonging(subs, subtitle_groups, i, ExtAss)
        /\ (pc = "exited" /\ video_files # <<>>) =>
                /\ exit_code = 0
                /\ \A i \in Videos : started[i] = 1

\* a finished --check run over two videos that reported an audio asset
C7_Witness ==
    /\ check
    /\ pc = "exited"
    /\ exit_code = 0
    /\ Len(video_files) = 2
    /\ \E i \in Videos : report[i][1] # <<>>

\* C8: in a run without --check and with at least one worker, process_video
\* is started once for every video and returns, ffmpeg is started once for
\* every video with an asset and never twice, and the run ends with the
\* completion message, printed after every call has returned.
C8_EachVideoOnce ==
    (~check /\ threads >= 1) =>
        /\ \A i \in Videos : started[i] <= 1 /\ invoked[i] <= 1
        /\ completed => \A i \in Videos : task[i] \in Returned
        /\ pc = "exited" /\ video_files # <<>> =>
            /\ completed
            /\ \A i \in Videos :
                /\ started[i] = 1
                /\ task[i] \in Returned
                /\ invoked[i] = IF no_assets(audio_files[i], subtitle_files[i]) THEN 0 ELSE 1

\* the output audio streams of an ffmpeg run, as input indices: every
\* "-map k:a" selects all count[k] audio streams of input k
RECURSIVE audio_streams(_, _, _)
audio_streams(maps, count, q) ==
    IF 2 * q > Len(maps) THEN <<>>
    ELSE (IF maps[2 * q][2] = "a"
          THEN [x \in 1..count[maps[2 * q][1]] |-> maps[2 * q][1]]
          ELSE <<>>) \o audio_streams(maps, count, q + 1)

\* C9: whatever the number of audio streams of the video and of each audio
\* asset, the output audio stream a:k that gets the tags of the k-th audio
\* asset is a stream of that asset.
C9_TagsOnOwnStream ==
    \A i \in Built :
        LET n == Len(audio_files[i])
        IN \A count \in [0..n -> 1..MaxStreams] :
            \A k \in 1..n :
                audio_streams(command[i].maps, count, 1)[k + 1] = k

\* C10: no audio or subtitle file is matched to two videos of one run.
C10_OneVideoPerFile ==
    \A i, j \in Videos :
        (i # j /\ started[i] > 0 /\ started[j] > 0) =>
            /\ \A k \in 1..Len(audio_files[i]), l \in 1..Len(audio_files[j]) :
                   audio_files[i][k][1] # audio_files[j][l][1]
            /\ \A k \in 1..Len(subtitle_files[i]), l \in 1..Len(subtitle_files[j]) :
                   subtitle_files[i][k][1] # subtitle_files[j][l][1]

\* the number a digit run denotes
DigitValue == "0" :> 0 @@ "1" :> 1 @@ "2" :> 2 @@ "3" :> 3 @@ "4" :> 4 @@
              "5" :> 5 @@ "6" :> 6 @@ "7" :> 7 @@ "8" :> 8 @@ "9" :> 9

RECURSIVE RunValue(_)
RunValue(run) ==
    IF run = <<>> THEN 0
    ELSE RunValue(SubSeq(run, 1, Len(run) - 1)) * 10 + DigitValue[run[Len(run)]]

\* a file name with one more zero in front of its first digit
WithLeadingZero(name) ==
    LET from == CHOOSE i \in 1..Len(name) :
                    name[i] \in Digits /\ \A j \in 1..(i - 1) : name[j] \notin Digits
    IN SubSeq(name, 1, from - 1) \o <<"0">> \o SubSeq(name, from, Len(name))

Show5Mkv == ShowPrefix \o <<"5">> \o ExtMkv
TeamX05Mka == <<"0", "5", "_", "T", "e", "a", "m", "X">> \o ExtMka

\* C6: under the numeric-key strategy a video and a file match exactly when
\* the first digit runs of their names denote the same number, so a leading
\* zero more in either name changes neither the key nor the match, and
\* "Show - 5.mkv" matches "05_TeamX.mka".
C6_NumericKey ==
    key_result \in {"match", "nomatch"} =>
        /\ (key_result = "match") =
               (/\ has_key(key_file)
                /\ RunValue(first_digit_run(key_video)) = RunValue(first_digit_run(key_file)))
        /\ episode_key(WithLeadingZero(key_video)) = episode_key(key_video)
        /\ has_key(key_file) =>
               /\ episode_key(WithLeadingZero(key_file)) = episode_key(key_file)
               /\ numeric_match(key_video, WithLeadingZero(key_file)) = (key_result = "match")
        /\ numeric_match(WithLeadingZero(key_video), key_file) = (key_result = "match")
        /\ (key_video = Show5Mkv /\ key_file = TeamX05Mka) => key_result = "match"

\* "Show - 5.mkv" was compared with "05_TeamX.mka" and matched
C6_Witness ==
    /\ key_video = Show5Mkv
    /\ key_file = TeamX05Mka
    /\ key_result = "match"

====
